---- MODULE Spec2Model ----
(***************************************************************************)
(* Model of src/src/main.js: the address parser (parseAddress, norm), the  *)
(* row scorer (scoreRow) and the per-query loop of Actor.main that scores  *)
(* the result table, picks the best row, clicks it and pushes records to   *)
(* the dataset.                                                            *)
(*                                                                         *)
(* Strings are sequences of one-character strings, "" is <<>>.  An absent  *)
(* value (a result not computed yet) is the empty sequence, a present one  *)
(* a one-element sequence.                                                 *)
(***************************************************************************)
EXTENDS Integers, Sequences, FiniteSets, TLC

VARIABLES
    \* Actor.main
    tasks,        \* the normalized tasks, records address / city / zip
    ti,           \* position of the for loop in tasks, from 1
    pc,           \* position of the loop body
    parsed,       \* parseAddress(address) of the current task
    rowsData,     \* the rows read from the result table
    scored,       \* the rows with score and breakdown, sorted
    best,         \* scored[0]
    bestIndex,    \* scored.indexOf(best), from 0
    rowHandles,   \* the number of row handles found for clicking
    dataset,      \* the records pushed with Actor.pushData
    pushedBy,     \* history: the task position that pushed each record
    clicks,       \* history: the row handles clicked, per task
    \* parseAddress on one address
    pAddr, pRes,
    \* parseAddress on an address and an edited copy of it
    tAddr, tAddr2, tEdit, tTok, tTok2,
    \* scoreRow on one row, before and after a city hint is added
    sRow, sAddr, sCity, sZip, sRes, sBase

mainVars == <<tasks, ti, pc, parsed, rowsData, scored, best, bestIndex,
              rowHandles, dataset, pushedBy, clicks>>
parseVars == <<pAddr, pRes>>
tokenVars == <<tAddr, tAddr2, tEdit, tTok, tTok2>>
scoreVars == <<sRow, sAddr, sCity, sZip, sRes, sBase>>
vars == <<mainVars, parseVars, tokenVars, scoreVars>>

(* Each specification below exercises one part of the program; the         *)
(* variables of the other parts stay at these values.                      *)
MainIdle ==
    /\ tasks = <<>> /\ ti = 0 /\ pc = "idle" /\ parsed = <<>>
    /\ rowsData = <<>> /\ scored = <<>> /\ best = <<>> /\ bestIndex = -1
    /\ rowHandles = 0 /\ dataset = <<>> /\ pushedBy = <<>> /\ clicks = <<>>
ParseIdle == pAddr = <<>> /\ pRes = <<>>
TokensIdle ==
    tAddr = <<>> /\ tAddr2 = <<>> /\ tEdit = "idle" /\ tTok = <<>> /\ tTok2 = <<>>
ScoreIdle ==
    /\ sRow = <<>> /\ sAddr = <<>> /\ sCity = <<>> /\ sZip = <<>>
    /\ sRes = <<>> /\ sBase = <<>>

----------------------------------------------------------------------------
(* Characters.  \s of a JavaScript regular expression and String.trim      *)
(* cover the same set (white space and line terminators); "." of a regular *)
(* expression without the s flag matches everything but line terminators.  *)

Digits == {"1"}
LowerCase == {"a"}
UpperCase == {"A"}
WhiteSpace == {" ", "\n"}
LineTerminators == {"\n"}
Punctuation == {"."}
Alphabet == Digits \cup LowerCase \cup UpperCase \cup WhiteSpace \cup Punctuation

MaxLen == 5
MaxTokLen == 4
MaxScoreLen == 3
MaxTasks == 2
MaxRows == 3

RowLimit == 100
PreviewSize == 3

RECURSIVE StringsUpTo(_)
StringsUpTo(n) ==
    IF n = 0 THEN {<<>>}
    ELSE LET S == StringsUpTo(n - 1)
         IN  S \cup {Append(s, c) : s \in {t \in S : Len(t) = n - 1}, c \in Alphabet}

lowerChar(c) == IF c = "A" THEN "a" ELSE c
upperChar(c) == IF c = "a" THEN "A" ELSE c

toLowerCase(s) == [i \in 1..Len(s) |-> lowerChar(s[i])]

RECURSIVE trimStart(_)
trimStart(s) ==
    IF s # <<>> /\ Head(s) \in WhiteSpace THEN trimStart(Tail(s)) ELSE s

RECURSIVE trimEnd(_)
trimEnd(s) ==
    IF s # <<>> /\ s[Len(s)] \in WhiteSpace
    THEN trimEnd(SubSeq(s, 1, Len(s) - 1)) ELSE s

trim(s) == trimEnd(trimStart(s))

(* s.replace(/\s+/g, ' '): every maximal white-space run becomes one space *)
RECURSIVE replaceWsRuns(_)
replaceWsRuns(s) ==
    IF s = <<>> THEN <<>>
    ELSE IF Head(s) \in WhiteSpace
         THEN <<" ">> \o replaceWsRuns(trimStart(s))
         ELSE <<Head(s)>> \o replaceWsRuns(Tail(s))

(* Faulty variant of norm: white-space runs are not collapsed. *)
norm_keepWsRuns(s) == trim(toLowerCase(s))

norm(s) == trim(replaceWsRuns(toLowerCase(s)))

(* s.split(' '): the pieces between single spaces, empty pieces included;  *)
(* ''.split(' ') is [''].                                                  *)
RECURSIVE splitFrom(_, _)
splitFrom(s, cur) ==
    IF s = <<>> THEN <<cur>>
    ELSE IF Head(s) = " " THEN <<cur>> \o splitFrom(Tail(s), <<>>)
         ELSE splitFrom(Tail(s), Append(cur, Head(s)))

split(s) == splitFrom(s, <<>>)

(* .filter(Boolean) on an array of strings drops the empty strings *)
filterBoolean(arr) == SelectSeq(arr, LAMBDA t : t # <<>>)

includes(hay, needle) ==
    \E i \in 0..(Len(hay) - Len(needle)) :
        SubSeq(hay, i + 1, i + Len(needle)) = needle

(* a.match of the house-number pattern (line 12: anchored at both ends, a   *)
(* captured run of \d, a run of \s, a captured run of "."): the set of ways *)
(* the pattern can match the whole of a: k digits, then w white-space characters, then the rest,     *)
(* which "." matches only if it holds no line terminator.  Both            *)
(* quantifiers are greedy, so the match reported is the one with the       *)
(* longest digit run and then the longest white-space run.                 *)
(* Faulty variant of houseMatches: "." also matches line terminators. *)
houseMatches_dotAll(a) ==
    {kw \in (1..Len(a)) \X (1..Len(a)) :
        /\ kw[1] + kw[2] <= Len(a)
        /\ \A i \in 1..kw[1] : a[i] \in Digits
        /\ \A i \in (kw[1] + 1)..(kw[1] + kw[2]) : a[i] \in WhiteSpace}

houseMatches(a) ==
    {kw \in (1..Len(a)) \X (1..Len(a)) :
        /\ kw[1] + kw[2] <= Len(a)
        /\ \A i \in 1..kw[1] : a[i] \in Digits
        /\ \A i \in (kw[1] + 1)..(kw[1] + kw[2]) : a[i] \in WhiteSpace
        /\ \A i \in (kw[1] + kw[2] + 1)..Len(a) : a[i] \notin LineTerminators}

matchHouse(a) ==
    LET M == houseMatches(a)
    IN  IF M = {} THEN <<>>
        ELSE LET k == CHOOSE k \in {kw[1] : kw \in M} :
                          \A j \in {kw[1] : kw \in M} : j <= k
                 w == CHOOSE w \in {kw[2] : kw \in {x \in M : x[1] = k}} :
                          \A j \in {kw[2] : kw \in {x \in M : x[1] = k}} : j <= w
             IN  <<SubSeq(a, 1, k), SubSeq(a, k + w + 1, Len(a))>>

(* Variant of parseAddress whose tokens drop punctuation. *)
parseAddress_stripPunct(address) ==
    LET a == trim(address)
        m == matchHouse(a)
    IN  [house  |-> IF m # <<>> THEN m[1] ELSE <<>>,
         street |-> IF m # <<>> THEN m[2] ELSE a,
         tokens |-> filterBoolean(split(norm(
                        SelectSeq(a, LAMBDA c : c \notin Punctuation))))]

parseAddress(address) ==
    LET a == trim(address)
        m == matchHouse(a)
    IN  [house  |-> IF m # <<>> THEN m[1] ELSE <<>>,
         street |-> IF m # <<>> THEN m[2] ELSE a,
         tokens |-> filterBoolean(split(norm(a)))]

(* score += pts; breakdown[key] = pts *)
addPoints(r, key, pts) ==
    [score |-> r.score + pts, breakdown |-> (key :> pts) @@ r.breakdown]

(* the for loop of lines 67-69 over parsed.tokens *)
RECURSIVE countStreetHits(_, _, _)
countStreetHits(tokens, textLoc, text) ==
    IF tokens = <<>> THEN 0
    ELSE (IF /\ Head(tokens) # <<>>
             /\ (includes(textLoc, Head(tokens)) \/ includes(text, Head(tokens)))
          THEN 1 ELSE 0)
         + countStreetHits(Tail(tokens), textLoc, text)

(* Faulty variant of scoreRow: the zip test is skipped when the house       *)
(* number matched.                                                         *)
scoreRow_zipElseIf(cells, rowText, p, cityHint, zipHint) ==
    LET text == norm(rowText)
        textLoc == norm(cells.serviceLocation)
        r0 == [score |-> 0, breakdown |-> [k \in {} |-> 0]]
        house == p.house # <<>> /\ (includes(textLoc, p.house) \/ includes(text, p.house))
        r1 == IF house THEN addPoints(r0, "house", 50) ELSE r0
        r2 == IF ~house /\ zipHint # <<>> /\ includes(text, norm(zipHint))
              THEN addPoints(r1, "zip", 40) ELSE r1
        r3 == IF cityHint # <<>>
                 /\ (includes(text, norm(cityHint)) \/ includes(textLoc, norm(cityHint)))
              THEN addPoints(r2, "city", 20) ELSE r2
        r4 == addPoints(r3, "streetTokens", countStreetHits(p.tokens, textLoc, text) * 5)
        r5 == IF trim(cells.email) # <<>> THEN addPoints(r4, "email", 3) ELSE r4
        r6 == IF trim(cells.phone) # <<>> THEN addPoints(r5, "phone", 3) ELSE r5
    IN  r6

(* Variant of scoreRow: streetTokens is written only when a token matched. *)
scoreRow_omitZeroStreet(cells, rowText, p, cityHint, zipHint) ==
    LET text == norm(rowText)
        textLoc == norm(cells.serviceLocation)
        r0 == [score |-> 0, breakdown |-> [k \in {} |-> 0]]
        r1 == IF p.house # <<>> /\ (includes(textLoc, p.house) \/ includes(text, p.house))
              THEN addPoints(r0, "house", 50) ELSE r0
        r2 == IF zipHint # <<>> /\ includes(text, norm(zipHint))
              THEN addPoints(r1, "zip", 40) ELSE r1
        r3 == IF cityHint # <<>>
                 /\ (includes(text, norm(cityHint)) \/ includes(textLoc, norm(cityHint)))
              THEN addPoints(r2, "city", 20) ELSE r2
        streetPts == countStreetHits(p.tokens, textLoc, text) * 5
        r4 == IF streetPts > 0 THEN addPoints(r3, "streetTokens", streetPts) ELSE r3
        r5 == IF trim(cells.email) # <<>> THEN addPoints(r4, "email", 3) ELSE r4
        r6 == IF trim(cells.phone) # <<>> THEN addPoints(r5, "phone", 3) ELSE r5
    IN  r6

(* Faulty variant of scoreRow: the city is looked up in the row text only. *)
scoreRow_cityTextOnly(cells, rowText, p, cityHint, zipHint) ==
    LET text == norm(rowText)
        textLoc == norm(cells.serviceLocation)
        r0 == [score |-> 0, breakdown |-> [k \in {} |-> 0]]
        r1 == IF p.house # <<>> /\ (includes(textLoc, p.house) \/ includes(text, p.house))
              THEN addPoints(r0, "house", 50) ELSE r0
        r2 == IF zipHint # <<>> /\ includes(text, norm(zipHint))
              THEN addPoints(r1, "zip", 40) ELSE r1
        r3 == IF cityHint # <<>> /\ includes(text, norm(cityHint))
              THEN addPoints(r2, "city", 20) ELSE r2
        r4 == addPoints(r3, "streetTokens", countStreetHits(p.tokens, textLoc, text) * 5)
        r5 == IF trim(cells.email) # <<>> THEN addPoints(r4, "email", 3) ELSE r4
        r6 == IF trim(cells.phone) # <<>> THEN addPoints(r5, "phone", 3) ELSE r5
    IN  r6

(* scoreRow, statement by statement: r0 is the state after lines 45-46,    *)
(* r1 after the house-number test, r2 after the zip test, r3 after the     *)
(* city test, r4 after the street tokens, r5 and r6 after the bonuses.     *)
(* A JavaScript string is truthy iff it is not empty.                      *)
scoreRow(cells, rowText, p, cityHint, zipHint) ==
    LET text == norm(rowText)
        loc == cells.serviceLocation
        textLoc == norm(loc)
        r0 == [score |-> 0, breakdown |-> [k \in {} |-> 0]]
        r1 == IF p.house # <<>> /\ (includes(textLoc, p.house) \/ includes(text, p.house))
              THEN addPoints(r0, "house", 50) ELSE r0
        r2 == IF zipHint # <<>>
              THEN LET z == norm(zipHint)
                   IN  IF includes(text, z) THEN addPoints(r1, "zip", 40) ELSE r1
              ELSE r1
        r3 == IF cityHint # <<>>
              THEN LET c == norm(cityHint)
                   IN  IF includes(text, c) \/ includes(textLoc, c)
                       THEN addPoints(r2, "city", 20) ELSE r2
              ELSE r2
        streetHits == countStreetHits(p.tokens, textLoc, text)
        streetPts == streetHits * 5
        r4 == addPoints(r3, "streetTokens", streetPts)
        r5 == IF cells.email # <<>> /\ trim(cells.email) # <<>>
              THEN addPoints(r4, "email", 3) ELSE r4
        r6 == IF cells.phone # <<>> /\ trim(cells.phone) # <<>>
              THEN addPoints(r5, "phone", 3) ELSE r5
    IN  r6

----------------------------------------------------------------------------
(* Specification of parseAddress on every address of at most MaxLen        *)
(* characters.                                                             *)

InitParse ==
    /\ pAddr \in StringsUpTo(MaxLen)
    /\ pRes = <<>>
    /\ TokensIdle /\ ScoreIdle /\ MainIdle

ParseCall ==
    /\ pRes = <<>>
    /\ pRes' = <<parseAddress(pAddr)>>
    /\ UNCHANGED <<pAddr, tokenVars, scoreVars, mainVars>>

NextParse == ParseCall

SpecParse == InitParse /\ [][NextParse]_vars

(* C7: for every address that starts with a run of decimal digits followed *)
(* by white space, parseAddress returns that digit run as the house number *)
(* and the text after the white space as the street remainder, also when   *)
(* only white space follows the digits and when the remainder holds a line *)
(* break.                                                                  *)
leadingDigits(s) ==
    LET stops == {i \in 1..Len(s) : s[i] \notin Digits}
    IN  IF stops = {} THEN Len(s)
        ELSE (CHOOSE i \in stops : \A j \in stops : i <= j) - 1

afterHouse(s) == trim(SubSeq(s, leadingDigits(s) + 1, Len(s)))

startsWithDigitsThenWs(s) ==
    /\ leadingDigits(s) >= 1
    /\ leadingDigits(s) < Len(s)
    /\ s[leadingDigits(s) + 1] \in WhiteSpace

C7_Original_HouseIsLeadingDigitRun ==
    (pRes # <<>> /\ startsWithDigitsThenWs(pAddr)) =>
        /\ pRes[1].house = SubSeq(pAddr, 1, leadingDigits(pAddr))
        /\ pRes[1].street = afterHouse(pAddr)

(* C7 as amended: when the trimmed address is a run of decimal digits,     *)
(* then white space, then text without a line terminator, the house number *)
(* is that digit run and the street remainder is that text; for every      *)
(* other address (only white space after the digits, or a line break in    *)
(* the remainder) the house number is empty and the street remainder is    *)
(* the whole trimmed address.                                              *)
hasLineTerminator(s) == \E i \in 1..Len(s) : s[i] \in LineTerminators

C7_HouseWhenRemainderOnOneLine ==
    pRes # <<>> =>
        LET a == trim(pAddr)
            k == leadingDigits(a)
            rest == trimStart(SubSeq(a, k + 1, Len(a)))
        IN  IF /\ k >= 1
               /\ k < Len(a)
               /\ a[k + 1] \in WhiteSpace
               /\ ~hasLineTerminator(rest)
            THEN pRes[1].house = SubSeq(a, 1, k) /\ pRes[1].street = rest
            ELSE pRes[1].house = <<>> /\ pRes[1].street = a

C7_Witness ==
    /\ pRes # <<>>
    /\ startsWithDigitsThenWs(pAddr)
    /\ Len(pRes[1].house) = 2
    /\ Len(pRes[1].street) = 2
    /\ pRes[1].house \o <<" ">> \o pRes[1].street = pAddr

----------------------------------------------------------------------------
(* Specification of the tokens of parseAddress on pairs of addresses: the  *)
(* second address is the first one edited in letter case, in the length of *)
(* its white-space runs, or by dropping punctuation attached to a word.    *)

isLetter(c) == c \in LowerCase \cup UpperCase
isWordChar(c) == c \in LowerCase \cup UpperCase \cup Digits

toggleCase(c) == IF c \in LowerCase THEN upperChar(c) ELSE lowerChar(c)

insertAt(s, i, c) == SubSeq(s, 1, i) \o <<c>> \o SubSeq(s, i + 1, Len(s))
removeAt(s, i) == SubSeq(s, 1, i - 1) \o SubSeq(s, i + 1, Len(s))

InitTokens ==
    /\ tAddr \in StringsUpTo(MaxTokLen)
    /\ tAddr2 = tAddr
    /\ tEdit = "none"
    /\ tTok = <<>>
    /\ tTok2 = <<>>
    /\ ParseIdle /\ ScoreIdle /\ MainIdle

EditCase ==
    /\ tTok = <<>>
    /\ tEdit \in {"none", "casews"}
    /\ \E i \in 1..Len(tAddr2) :
          /\ isLetter(tAddr2[i])
          /\ tAddr2' = [tAddr2 EXCEPT ![i] = toggleCase(@)]
    /\ tEdit' = "casews"
    /\ UNCHANGED <<tAddr, tTok, tTok2, parseVars, scoreVars, mainVars>>

EditWsGrow ==
    /\ tTok = <<>>
    /\ tEdit \in {"none", "casews"}
    /\ Len(tAddr2) < MaxTokLen
    /\ \E i \in 1..Len(tAddr2), c \in WhiteSpace :
          /\ tAddr2[i] \in WhiteSpace
          /\ tAddr2' = insertAt(tAddr2, i, c)
    /\ tEdit' = "casews"
    /\ UNCHANGED <<tAddr, tTok, tTok2, parseVars, scoreVars, mainVars>>

EditWsShrink ==
    /\ tTok = <<>>
    /\ tEdit \in {"none", "casews"}
    /\ \E i \in 1..(Len(tAddr2) - 1) :
          /\ tAddr2[i] \in WhiteSpace
          /\ tAddr2[i + 1] \in WhiteSpace
          /\ \E j \in {i, i + 1} : tAddr2' = removeAt(tAddr2, j)
    /\ tEdit' = "casews"
    /\ UNCHANGED <<tAddr, tTok, tTok2, parseVars, scoreVars, mainVars>>

EditPunct ==
    /\ tTok = <<>>
    /\ tEdit \in {"none", "punct"}
    /\ \E i \in 1..Len(tAddr2) :
          /\ tAddr2[i] \in Punctuation
          /\ \/ (i > 1 /\ isWordChar(tAddr2[i - 1]))
             \/ (i < Len(tAddr2) /\ isWordChar(tAddr2[i + 1]))
          /\ tAddr2' = removeAt(tAddr2, i)
    /\ tEdit' = "punct"
    /\ UNCHANGED <<tAddr, tTok, tTok2, parseVars, scoreVars, mainVars>>

TokensCall ==
    /\ tTok = <<>>
    /\ tTok' = <<parseAddress(tAddr).tokens>>
    /\ tTok2' = <<parseAddress(tAddr2).tokens>>
    /\ UNCHANGED <<tAddr, tAddr2, tEdit, parseVars, scoreVars, mainVars>>

NextTokens == EditCase \/ EditWsGrow \/ EditWsShrink \/ EditPunct \/ TokensCall

SpecTokens == InitTokens /\ [][NextTokens]_vars

isBlank(s) == \A i \in 1..Len(s) : s[i] \in WhiteSpace

(* C8: two addresses that differ only in letter case and in the length of  *)
(* their white-space runs have the same tokens, and the tokens are empty   *)
(* only for an empty or white-space-only address.                          *)
C8_TokensCaseWsInvariant ==
    (tTok # <<>> /\ tEdit \in {"none", "casews"}) =>
        /\ tTok[1] = tTok2[1]
        /\ (tTok[1] = <<>> => isBlank(tAddr))
        /\ (tTok2[1] = <<>> => isBlank(tAddr2))

C8_Witness ==
    /\ tTok # <<>>
    /\ tEdit = "casews"
    /\ Len(tAddr2) > Len(tAddr)
    /\ toLowerCase(tAddr) # tAddr
    /\ toLowerCase(tAddr2) = tAddr2
    /\ Len(tTok2[1]) = 2

RECURSIVE flatten(_)
flatten(ss) == IF ss = <<>> THEN <<>> ELSE Head(ss) \o flatten(Tail(ss))

punctCount(s) == Cardinality({i \in 1..Len(s) : s[i] \in Punctuation})

(* C9 as stated: two addresses that differ only in punctuation attached to *)
(* words have the same tokens.                                             *)
C9_Original_PunctuationInsensitive ==
    (tTok # <<>> /\ tEdit = "punct") => tTok[1] = tTok2[1]

(* C9 as amended: the tokens keep the punctuation of the address, every    *)
(* punctuation character of the address is in a token, so two addresses    *)
(* that differ in punctuation attached to a word have different tokens.    *)
C9_TokensKeepPunctuation ==
    (tTok # <<>> /\ tEdit = "punct") =>
        /\ tTok[1] # tTok2[1]
        /\ punctCount(flatten(tTok[1])) = punctCount(tAddr)
        /\ punctCount(flatten(tTok2[1])) = punctCount(tAddr2)

C9_Witness ==
    /\ tTok # <<>>
    /\ tEdit = "punct"
    /\ Len(tTok[1]) = 2
    /\ tAddr[Len(tAddr)] \in Punctuation
    /\ punctCount(tAddr2) = 0

----------------------------------------------------------------------------
(* Specification of scoreRow: one row of ScorePool, every address of at    *)
(* most MaxScoreLen characters, a city hint and a zip hint of Hints.  The  *)
(* row is scored, and a call without city hint can be repeated with one.   *)

mkCells(name, email, phone, loc) ==
    [name |-> name, email |-> email, phone |-> phone, serviceLocation |-> loc,
     city |-> <<>>, zip |-> <<>>, href |-> <<>>]

ScorePool ==
    { [text  |-> <<"A", " ", "1", "1", " ", "\n", "A", ".", " ", "a">>,
       cells |-> mkCells(<<"A">>, <<"a">>, <<>>, <<"1", "1", " ", " ", "A", ".">>)],
      [text  |-> <<"1", ".">>,
       cells |-> mkCells(<<>>, <<" ">>, <<"1">>, <<>>)],
      [text  |-> <<".">>,
       cells |-> mkCells(<<"a">>, <<"a">>, <<"1">>, <<"a", " ", "1">>)],
      [text  |-> <<>>,
       cells |-> mkCells(<<>>, <<>>, <<>>, <<>>)] }

Hints == {<<>>, <<" ">>, <<"A">>, <<"1", "1">>, <<"a", "\n", "1">>}

InitScore ==
    /\ sRow \in {<<r>> : r \in ScorePool}
    /\ sAddr \in StringsUpTo(MaxScoreLen)
    /\ sCity \in Hints
    /\ sZip \in Hints
    /\ sRes = <<>>
    /\ sBase = <<>>
    /\ ParseIdle /\ TokensIdle /\ MainIdle

ScoreCall ==
    /\ sRes = <<>>
    /\ sRes' = <<scoreRow(sRow[1].cells, sRow[1].text, parseAddress(sAddr), sCity, sZip)>>
    /\ UNCHANGED <<sRow, sAddr, sCity, sZip, sBase, parseVars, tokenVars, mainVars>>

AddCityHint ==
    /\ sRes # <<>>
    /\ sBase = <<>>
    /\ sCity = <<>>
    /\ \E c \in Hints \ {<<>>} :
          /\ sCity' = c
          /\ sRes' = <<scoreRow(sRow[1].cells, sRow[1].text, parseAddress(sAddr), c, sZip)>>
    /\ sBase' = sRes
    /\ UNCHANGED <<sRow, sAddr, sZip, parseVars, tokenVars, mainVars>>

NextScore == ScoreCall \/ AddCityHint

SpecScore == InitScore /\ [][NextScore]_vars

(* The firing condition of each signal, on the inputs alone. *)
sText == norm(sRow[1].text)
sLoc == norm(sRow[1].cells.serviceLocation)
sParsed == parseAddress(sAddr)
inRow(needle) == includes(sLoc, needle) \/ includes(sText, needle)
houseFired == sParsed.house # <<>> /\ inRow(sParsed.house)
zipFired == sZip # <<>> /\ includes(sText, norm(sZip))
cityFired == sCity # <<>> /\ inRow(norm(sCity))
tokenHits == Cardinality({i \in 1..Len(sParsed.tokens) : inRow(sParsed.tokens[i])})
emailFired == trim(sRow[1].cells.email) # <<>>
phoneFired == trim(sRow[1].cells.phone) # <<>>
pts(fired, n) == IF fired THEN n ELSE 0

(* C4: the score is 50*[house] + 40*[zip] + 20*[city] + 5*(matching        *)
(* tokens) + 3*[email] + 3*[phone], every signal judged on the inputs      *)
(* alone.                                                                  *)
C4_ScoreIsSumOfSignals ==
    sRes # <<>> =>
        /\ sRes[1].score \in Nat
        /\ sRes[1].score = pts(houseFired, 50) + pts(zipFired, 40) + pts(cityFired, 20)
                            + 5 * tokenHits + pts(emailFired, 3) + pts(phoneFired, 3)

C4_Witness ==
    /\ sRes # <<>>
    /\ houseFired /\ zipFired /\ cityFired /\ emailFired /\ ~phoneFired
    /\ tokenHits = 2
    /\ sRes[1].score = 123

SignalKeys == {"house", "zip", "city", "streetTokens", "email", "phone"}

(* C5 as stated: a key is in the breakdown exactly when its signal gave a  *)
(* positive number of points; no key has the value 0.                      *)
C5_Original_NoZeroEntries ==
    sRes # <<>> =>
        /\ \A k \in DOMAIN sRes[1].breakdown : sRes[1].breakdown[k] > 0
        /\ ("streetTokens" \in DOMAIN sRes[1].breakdown) <=> (tokenHits > 0)

(* C5 as amended: house, zip, city, email and phone are in the breakdown   *)
(* exactly when the signal fired, with the points it gave; streetTokens is *)
(* always in the breakdown, with 5 * (matching tokens), which is 0 when no *)
(* token matches.                                                          *)
hasKey(k, fired, n) ==
    /\ (k \in DOMAIN sRes[1].breakdown) <=> fired
    /\ fired => sRes[1].breakdown[k] = n

C5_BreakdownKeys ==
    sRes # <<>> =>
        /\ DOMAIN sRes[1].breakdown \subseteq SignalKeys
        /\ hasKey("house", houseFired, 50)
        /\ hasKey("zip", zipFired, 40)
        /\ hasKey("city", cityFired, 20)
        /\ hasKey("email", emailFired, 3)
        /\ hasKey("phone", phoneFired, 3)
        /\ hasKey("streetTokens", TRUE, 5 * tokenHits)

C5_Witness ==
    /\ sRes # <<>>
    /\ DOMAIN sRes[1].breakdown = {"streetTokens", "zip", "phone"}
    /\ sRes[1].breakdown["streetTokens"] = 0

(* C6: a matching city hint in place of an empty one raises the score by   *)
(* exactly 20, and no city hint lowers the score.                          *)
C6_CityHintAdds20 ==
    sBase # <<>> =>
        /\ sRes[1].score >= sBase[1].score
        /\ inRow(norm(sCity)) => sRes[1].score = sBase[1].score + 20

C6_Witness ==
    /\ sBase # <<>>
    /\ sCity = <<"a", "\n", "1">>
    /\ ~includes(sText, norm(sCity))
    /\ sBase[1].score > 0
    /\ sRes[1].score = sBase[1].score + 20

----------------------------------------------------------------------------
(* Actor.main: the loop over the tasks.  The browser is the environment:   *)
(* it renders, for each search, some table of at most MaxRows rows of      *)
(* TableRows, and some number of row handles when the table is read again  *)
(* for clicking.  The HTML and screenshot written to the key-value store   *)
(* and the details read from the detail page do not take part in           *)
(* selection and are left out of the records.                              *)

Queries ==
    { [address |-> <<"1", "1", " ", "A">>, city |-> <<>>, zip |-> <<>>],
      [address |-> <<"1">>, city |-> <<"a", ".">>, zip |-> <<"1">>] }

TableRows ==
    { [text  |-> <<"1", " ", ".">>,
       cells |-> [name |-> <<"a">>, email |-> <<>>, phone |-> <<>>,
                  serviceLocation |-> <<"1", " ", ".">>,
                  city |-> <<>>, zip |-> <<>>, href |-> <<".">>]],
      [text  |-> <<"A", " ", "1", "1", " ", "a">>,
       cells |-> [name |-> <<"A">>, email |-> <<>>, phone |-> <<>>,
                  serviceLocation |-> <<"1", "1", " ", "a">>,
                  city |-> <<>>, zip |-> <<>>, href |-> <<>>]] }

RECURSIVE SeqsUpTo(_, _)
SeqsUpTo(S, n) ==
    IF n = 0 THEN {<<>>}
    ELSE LET T == SeqsUpTo(S, n - 1)
         IN  T \cup {Append(t, x) : t \in {u \in T : Len(u) = n - 1}, x \in S}

slice(arr, from, to) ==
    SubSeq(arr, from + 1, IF to < Len(arr) THEN to ELSE Len(arr))

(* rowsData.map(r => ({ ...r, score, breakdown })): orig is the position   *)
(* of the row in rowsData, from 0; it stands for the identity of the       *)
(* object, which tells two rows with equal contents apart.                 *)
scoreAll(rows, p, city, zip) ==
    [i \in 1..Len(rows) |->
        LET sr == scoreRow(rows[i].cells, rows[i].text, p, city, zip)
        IN  [text |-> rows[i].text, cells |-> rows[i].cells,
             score |-> sr.score, breakdown |-> sr.breakdown, orig |-> i - 1]]

(* Array.prototype.sort with (a, b) => b.score - a.score.  The sort is     *)
(* stable: an element goes behind every element it does not precede.       *)
(* Faulty variant of insertSorted: an element goes before its equals. *)
RECURSIVE insertSorted_tiesFirst(_, _)
insertSorted_tiesFirst(sorted, x) ==
    IF sorted = <<>> THEN <<x>>
    ELSE IF Head(sorted).score <= x.score THEN <<x>> \o sorted
         ELSE <<Head(sorted)>> \o insertSorted_tiesFirst(Tail(sorted), x)

RECURSIVE insertSorted(_, _)
insertSorted(sorted, x) ==
    IF sorted = <<>> THEN <<x>>
    ELSE IF Head(sorted).score < x.score THEN <<x>> \o sorted
         ELSE <<Head(sorted)>> \o insertSorted(Tail(sorted), x)

RECURSIVE sortByScoreDesc(_)
sortByScoreDesc(arr) ==
    IF arr = <<>> THEN <<>>
    ELSE insertSorted(sortByScoreDesc(SubSeq(arr, 1, Len(arr) - 1)), arr[Len(arr)])

(* arr.indexOf(x): the first position, from 0, of x itself; -1 if none *)
indexOf(arr, x) ==
    LET found == {i \in 1..Len(arr) : arr[i] = x}
    IN  IF found = {} THEN -1
        ELSE (CHOOSE i \in found : \A j \in found : i <= j) - 1

(* s.cells.href || null: the empty string stands for null as well *)
orNull(h) == h

previewEntry(s) ==
    [score |-> s.score, breakdown |-> s.breakdown, name |-> s.cells.name,
     serviceLocation |-> s.cells.serviceLocation, city |-> s.cells.city,
     zip |-> s.cells.zip, href |-> orNull(s.cells.href)]

(* Faulty variant of tablePreviewTop3: the slice starts at the second row. *)
tablePreviewTop3_skipFirst(sc) ==
    LET top == slice(sc, 1, PreviewSize + 1)
    IN  [i \in 1..Len(top) |-> previewEntry(top[i])]

tablePreviewTop3(sc) ==
    LET top == slice(sc, 0, PreviewSize)
    IN  [i \in 1..Len(top) |-> previewEntry(top[i])]

query == [address |-> tasks[ti].address, city |-> tasks[ti].city, zip |-> tasks[ti].zip]

Init ==
    /\ tasks \in SeqsUpTo(Queries, MaxTasks) \ {<<>>}
    /\ ti = 1
    /\ pc = "loop"
    /\ parsed = <<>>
    /\ rowsData = <<>>
    /\ scored = <<>>
    /\ best = <<>>
    /\ bestIndex = -1
    /\ rowHandles = 0
    /\ dataset = <<>>
    /\ pushedBy = <<>>
    /\ clicks = <<>>
    /\ ParseIdle /\ TokensIdle /\ ScoreIdle

others == <<parseVars, tokenVars, scoreVars>>

(* continue, or the end of the loop body: the next task, and the           *)
(* variables of the body go out of scope.                                  *)
NextTask ==
    /\ ti' = ti + 1
    /\ pc' = "loop"
    /\ parsed' = <<>>
    /\ rowsData' = <<>>
    /\ scored' = <<>>
    /\ best' = <<>>
    /\ bestIndex' = -1
    /\ rowHandles' = 0

(* lines 261-309: parse the address, search, read the first rows *)
Search ==
    /\ pc = "loop"
    /\ ti <= Len(tasks)
    /\ parsed' = <<parseAddress(tasks[ti].address)>>
    /\ \E table \in SeqsUpTo(TableRows, MaxRows) :
          rowsData' = slice(table, 0, RowLimit)
    /\ pc' = "rows"
    /\ UNCHANGED <<tasks, ti, scored, best, bestIndex, rowHandles,
                   dataset, pushedBy, clicks, others>>

(* Faulty variant of NoRows: the run ends without a record. *)
NoRows_abort ==
    /\ pc = "rows"
    /\ Len(rowsData) = 0
    /\ pc' = "done"
    /\ UNCHANGED <<tasks, ti, parsed, rowsData, scored, best, bestIndex,
                   rowHandles, dataset, pushedBy, clicks, others>>

(* lines 311-322 *)
NoRows ==
    /\ pc = "rows"
    /\ Len(rowsData) = 0
    /\ dataset' = Append(dataset,
                         [query |-> query, detailOpened |-> FALSE, rowsPreview |-> <<>>])
    /\ pushedBy' = Append(pushedBy, ti)
    /\ NextTask
    /\ UNCHANGED <<tasks, clicks, others>>

(* lines 324-330 *)
ScoreAndSort ==
    /\ pc = "rows"
    /\ Len(rowsData) # 0
    /\ scored' = sortByScoreDesc(
                     scoreAll(rowsData, parsed[1], tasks[ti].city, tasks[ti].zip))
    /\ best' = <<scored'[1]>>
    /\ pc' = "preview"
    /\ UNCHANGED <<tasks, ti, parsed, rowsData, bestIndex, rowHandles,
                   dataset, pushedBy, clicks, others>>

(* lines 342-355 *)
PushPreview ==
    /\ pc = "preview"
    /\ dataset' = Append(dataset,
                         [query |-> query, tablePreviewTop3 |-> tablePreviewTop3(scored)])
    /\ pushedBy' = Append(pushedBy, ti)
    /\ pc' = "handles"
    /\ UNCHANGED <<tasks, ti, parsed, rowsData, scored, best, bestIndex,
                   rowHandles, clicks, others>>

(* lines 357-362: the table is read again; it may have been rendered anew *)
FindHandles ==
    /\ pc = "handles"
    /\ bestIndex' = indexOf(scored, best[1])
    /\ rowHandles' \in 0..Len(rowsData)
    /\ pc' = "click"
    /\ UNCHANGED <<tasks, ti, parsed, rowsData, scored, best,
                   dataset, pushedBy, clicks, others>>

(* lines 364-367: rowHandles[bestIndex] is undefined *)
MissingHandle ==
    /\ pc = "click"
    /\ ~(0 <= bestIndex /\ bestIndex < rowHandles)
    /\ NextTask
    /\ UNCHANGED <<tasks, dataset, pushedBy, clicks, others>>

(* lines 369-412: the link of row bestIndex, or the row, is clicked *)
ClickBest ==
    /\ pc = "click"
    /\ 0 <= bestIndex /\ bestIndex < rowHandles
    /\ clicks' = Append(clicks, [task |-> ti, index |-> bestIndex])
    /\ pc' = "detail"
    /\ UNCHANGED <<tasks, ti, parsed, rowsData, scored, best, bestIndex,
                   rowHandles, dataset, pushedBy, others>>

(* lines 414-437 *)
PushChosen ==
    /\ pc = "detail"
    /\ dataset' = Append(dataset,
                         [query |-> query, chosen |-> previewEntry(best[1]),
                          detailOpened |-> TRUE])
    /\ pushedBy' = Append(pushedBy, ti)
    /\ NextTask
    /\ UNCHANGED <<tasks, clicks, others>>

(* lines 439-440 *)
Finish ==
    /\ pc = "loop"
    /\ ti > Len(tasks)
    /\ pc' = "done"
    /\ UNCHANGED <<tasks, ti, parsed, rowsData, scored, best, bestIndex,
                   rowHandles, dataset, pushedBy, clicks, others>>

Next ==
    \/ Search
    \/ NoRows
    \/ ScoreAndSort
    \/ PushPreview
    \/ FindHandles
    \/ MissingHandle
    \/ ClickBest
    \/ PushChosen
    \/ Finish

Spec == Init /\ [][Next]_vars

(* The score of row i of rowsData for the current task, from 1. *)
rowScore(i) ==
    scoreRow(rowsData[i].cells, rowsData[i].text, parsed[1],
             tasks[ti].city, tasks[ti].zip).score

(* C1: the row selected as best has the maximal score and, among the rows  *)
(* with that score, the smallest position in the table; when every row     *)
(* scores 0 it is the first row.                                           *)
rowScores == [i \in 1..Len(rowsData) |-> rowScore(i)]

C1_BestIsFirstMaximum ==
    best # <<>> =>
        \A sc \in {rowScores} :
            LET b == best[1].orig + 1
            IN  /\ b \in 1..Len(rowsData)
                /\ best[1].text = rowsData[b].text
                /\ best[1].cells = rowsData[b].cells
                /\ best[1].score = sc[b]
                /\ \A j \in 1..Len(rowsData) : sc[j] <= sc[b]
                /\ \A j \in 1..(b - 1) : sc[j] < sc[b]
                /\ (\A j \in 1..Len(rowsData) : sc[j] = 0) => b = 1

C1_Witness ==
    /\ best # <<>>
    /\ Len(rowsData) = 3
    /\ best[1].orig = 1
    /\ rowScore(3) = best[1].score
    /\ rowScore(1) < best[1].score
    /\ best[1].score > 0

(* C2: the index handed to the browser, bestIndex, is the position in the  *)
(* table of the selected row, so the row clicked is the row selected.      *)
C2_ClickedIndexIsOriginalIndex ==
    pc \in {"click", "detail"} => bestIndex = best[1].orig

(* C3: with no rows, nothing is scored, selected or clicked; exactly one   *)
(* record with detailOpened = FALSE and an empty rowsPreview is pushed for *)
(* the query, and the loop goes on to the next query.                      *)
C3_NoRowsStep ==
    (pc = "rows" /\ rowsData = <<>>) =>
        /\ dataset' = Append(dataset, [query |-> tasks[ti], detailOpened |-> FALSE,
                                        rowsPreview |-> <<>>])
        /\ scored' = <<>> /\ best' = <<>>
        /\ clicks' = clicks
        /\ tasks' = tasks
        /\ ti' = ti + 1
        /\ pc' = "loop"

isNoResult(r) ==
    /\ DOMAIN r = {"query", "detailOpened", "rowsPreview"}
    /\ r.detailOpened = FALSE
    /\ r.rowsPreview = <<>>
isPreview(r) == DOMAIN r = {"query", "tablePreviewTop3"} /\ r.tablePreviewTop3 # <<>>
isChosen(r) == DOMAIN r = {"query", "chosen", "detailOpened"} /\ r.detailOpened = TRUE

(* the records pushed for task j, in the order pushed *)
recordsOf(j) ==
    LET at == {i \in 1..Len(dataset) : pushedBy[i] = j}
        first == IF at = {} THEN 1 ELSE CHOOSE i \in at : \A k \in at : i <= k
    IN  SubSeq(dataset, first, first + Cardinality(at) - 1)

previewThenChosen(b) ==
    /\ Len(b) \in {1, 2}
    /\ isPreview(b[1])
    /\ Len(b) = 2 =>
          /\ isChosen(b[2])
          /\ b[2].chosen.score = b[1].tablePreviewTop3[1].score
          /\ b[2].chosen.breakdown = b[1].tablePreviewTop3[1].breakdown

(* C10: the queries are processed one at a time in input order; every      *)
(* query processed pushes either one no-result record, or one preview      *)
(* record followed by at most one chosen record, whose score and breakdown *)
(* are those of the first entry of the preview; no record of a later query *)
(* comes before a record of an earlier one.                                *)
C10_RecordProtocol ==
    /\ Len(pushedBy) = Len(dataset)
    /\ \A i \in 1..Len(dataset) :
          /\ pushedBy[i] \in 1..Len(tasks)
          /\ pushedBy[i] <= ti
          /\ dataset[i].query = tasks[pushedBy[i]]
          /\ i > 1 => pushedBy[i - 1] <= pushedBy[i]
    /\ \A j \in 1..Len(tasks) :
          LET b == recordsOf(j)
          IN  IF j < ti
              THEN (Len(b) = 1 /\ isNoResult(b[1])) \/ previewThenChosen(b)
              ELSE IF j = ti /\ pc \in {"handles", "click", "detail"}
                   THEN Len(b) = 1 /\ isPreview(b[1])
                   ELSE b = <<>>
    /\ pc = "done" => ti = Len(tasks) + 1

C10_Witness ==
    /\ pc = "done"
    /\ Len(tasks) = 2
    /\ Len(dataset) = 4
    /\ dataset[2].chosen.score > 0
    /\ Len(dataset[3].tablePreviewTop3) = 3
    /\ dataset[3].tablePreviewTop3[1].score = 0

====
